---- MODULE Spec2Model ----
(***************************************************************************)
(* Reliable delivery over UDP (reliability.py) and the chat server that    *)
(* uses it (server.py), with the packet handler of the client              *)
(* (client_gui.py).                                                        *)
(*                                                                         *)
(* Time: the program uses a time stamp (sent_time, current_time, last     *)
(* seen) only to compare its age, time.time() minus the stamp, with a      *)
(* timeout.  The model keeps, in place of the stamp, the outcome of that   *)
(* comparison now: a sent_time or current_time is "recent" until more than *)
(* ack_timeout (3.0 s) has passed since it was taken and "expired" from    *)
(* then on (Tick); a last-seen stamp is "fresh" until more than the        *)
(* liveness timeout (60 s) has passed and "stale" from then on (Minute).   *)
(* Time may pass between any two steps of any thread.                      *)
(*                                                                         *)
(* Two specifications share the variables.  RUSpec is one ReliableUDP      *)
(* instance with its retry thread, driven by an arbitrary caller.  Spec is *)
(* an endpoint, the server or a client, with its receive loop and (for the *)
(* server) its liveness monitor; its sends go through send_reliable and    *)
(* its ACKs through handle_ack, and the retry thread is left to RUSpec.    *)
(*                                                                         *)
(* Steps: a receive handler runs on the one receive thread and is one      *)
(* step, its sends included; send_reliable (registration under the lock,   *)
(* then the transmission) is one step.  A pass of _check_timeouts or of    *)
(* _heartbeat_checker releases the lock between its scan and each of its   *)
(* iterations, so each of those is a step of its own and other threads'    *)
(* steps come in between; the model takes the ids of a pass in any order.  *)
(* received counts the datagrams the server handled and next_id the        *)
(* message ids the endpoint generated; both are capped.                    *)
(*                                                                         *)
(* Further specifications look at one aspect each, with the rest of the    *)
(* state left at its initial value: FaultSpec and StopSpec are RUSpec with *)
(* a socket whose sendto may fail and with stop(); CodecSpec is the codec   *)
(* of protocol.py; SendSpec takes send_reliable in its two steps, with the *)
(* network and the peer; LoopSpec is the loops of the three programs and   *)
(* the two locks; NestSpec is ReliableUDP with handlers that call back     *)
(* into it; BeatSpec is the GUI client with its heartbeat thread, whose    *)
(* self.running (th.running) was set by connect_to_server before the       *)
(* thread started.                                                         *)
(*                                                                         *)
(* A handler passed to send_reliable is a closure created by that call;    *)
(* the model names it by the number of the call, and records every         *)
(* invocation of it in calls[c].fired.                                     *)
(***************************************************************************)
EXTENDS Integers, Sequences, FiniteSets, TLC

VARIABLES
    received,           \* number of datagrams the server's receive loop handled
    pending,            \* ReliableUDP.pending_messages: message_id -> entry
    running,            \* ReliableUDP.running
    sweep,              \* position and locals of the _check_timeouts thread
    calls,              \* one record per tracked send_reliable call
    clients,            \* ChatServer.clients, in insertion order
    client_last_seen,   \* ChatServer.client_last_seen
    message_count,      \* ChatServer.message_count
    next_id,            \* number of message ids this endpoint generated (uuid4)
    hb,                 \* position and locals of the _heartbeat_checker thread
    client,             \* ModernChatClient: username, reliable_udp, connected
    role,               \* which program the endpoint runs: "server" or "client"
    sock,               \* whether sock.sendto succeeds: "ok" or "error"
    wire,               \* a packet, its serialized bytes and what parse made of them
    th,                 \* positions of the threads of the server, and its two locks
    net,                \* datagrams in flight between send_reliable's caller and its peer
    last                \* the operation performed by the last step

vars == <<received, pending, running, sweep, calls, clients, client_last_seen,
          message_count, next_id, hb, client, role, sock, wire, th, net, last>>

ruVars == <<pending, running, sweep, calls>>
auxVars == <<sock, wire, th, net>>
srvVars == <<received, clients, client_last_seen, message_count, next_id, hb,
            client, role, auxVars>>

----------------------------------------------------------------------------
(* Bounds *)

MaxCalls == 2
MaxRecv == 3
MaxFresh == 6

(* Program constants *)

MaxRetries == 3

MsgIds == {1, 2}
Addrs == {"a1", "a2"}
\* The addresses the datagrams of a sender arrive from: alice's from either
\* (her port changed, or somebody else uses her name), the others' from one
SourceAddrs(u) == IF u = "alice" THEN Addrs ELSE IF u = "bob" THEN {"a2"} ELSE {"a1"}
Users == {"alice", "bob", "carol"}
None == "None"

----------------------------------------------------------------------------
(* protocol.py *)

MESSAGE == "message"
PRIVATE_MESSAGE == "private_message"
ACK == "ack"
JOIN == "join"
LEAVE == "leave"
USER_LIST == "user_list"
HEARTBEAT == "heartbeat"
ERROR == "error"

\* A Packet.  Its timestamp is time.time() at creation; the program only
\* carries it, and the packets the model creates all have timestamp 0.
Packet(message_type, sender, message_id, content, recipient) ==
    [message_type |-> message_type, sender |-> sender, timestamp |-> 0,
     message_id |-> message_id, content |-> content, recipient |-> recipient]

\* The packet of a step that was given none
NoPacket == Packet(None, None, 0, None, None)

\* The fields of the dataclass; recipient has a default
Fields == {"message_type", "sender", "timestamp", "message_id", "content",
           "recipient"}
Required == Fields \ {"recipient"}

\* JSON values: what json.dumps writes for None, for a str and for a float
JsonNull == [t |-> "null", v |-> None]
JsonString(x) == [t |-> "string", v |-> x]
JsonNumber(x) == [t |-> "number", v |-> x]
\* and what json.loads makes of them
PyValue(j) == IF j.t = "null" THEN None ELSE j.v

\* A datagram: bytes that are valid UTF-8 or not, and the JSON text they
\* hold: an object with its members, an array, text that is not JSON, or
\* brackets nested deeper than the interpreter's recursion limit
Bytes(utf8, form, members) == [utf8 |-> utf8, form |-> form, members |-> members]
NoMembers == [k \in {} |-> JsonNull]

\* to_json that writes an empty recipient as null
to_json_falsy(p) ==
    [k \in Fields |->
        IF k = "recipient"
        THEN IF p[k] = None \/ p[k] = "" THEN JsonNull ELSE JsonString(p[k])
        ELSE IF k = "timestamp" THEN JsonNumber(p[k]) ELSE JsonString(p[k])]

\* json.dumps(asdict(self))
to_json(p) ==
    [k \in Fields |->
        IF k = "recipient"
        THEN IF p[k] = None THEN JsonNull ELSE JsonString(p[k])
        ELSE IF k = "timestamp" THEN JsonNumber(p[k]) ELSE JsonString(p[k])]

\* packet.to_json().encode('utf-8')
serialize(packet) == Bytes(TRUE, "object", to_json(packet))

\* The outcome of parse: a Packet, Python's None, or an exception that
\* leaves parse
Parsed(outcome, packet) == [outcome |-> outcome, packet |-> packet]
PyNone == Parsed("none", NoPacket)

\* data = json.loads(json_str); cls(**data), for text json.loads accepts
from_json(form, members) ==
    IF form # "object"
    THEN PyNone                       \* TypeError: not a mapping
    ELSE IF ~(Required \subseteq DOMAIN members /\ DOMAIN members \subseteq Fields)
    THEN PyNone                       \* TypeError: missing or unexpected argument
    ELSE Parsed("packet",
                [k \in Fields |-> IF k \in DOMAIN members
                                  THEN PyValue(members[k])
                                  ELSE None])

\* PacketParser.parse: except (JSONDecodeError, UnicodeDecodeError, TypeError)
parse(data) ==
    IF ~data.utf8
    THEN PyNone                       \* UnicodeDecodeError
    ELSE IF data.form = "malformed"
    THEN PyNone                       \* JSONDecodeError
    ELSE IF data.form = "deep"
    THEN Parsed("raised", NoPacket)   \* RecursionError
    ELSE from_json(data.form, data.members)

----------------------------------------------------------------------------
(* Python dict operations on a function whose domain is the key set *)

DictSet(d, k, v) == [x \in (DOMAIN d) \cup {k} |-> IF x = k THEN v ELSE d[x]]
\* del d[k] forgotten
DictKeep(d, k) == d
DictDel(d, k) == [x \in (DOMAIN d) \ {k} |-> d[x]]
EmptyDict == [x \in {} |-> None]

----------------------------------------------------------------------------
(* reliability.py *)

\* A datagram handed to sock.sendto
Datagram(packet, addr) == [packet |-> packet, addr |-> addr]

\* The state send_reliable works on: the pending set, the record of calls,
\* and the datagrams transmitted so far in the current step.
RUState(p, c, s) == [pending |-> p, calls |-> c, sent |-> s]

\* try: self.sock.sendto(data, addr); except Exception: the error is logged
_send_packet(st, packet, addr) ==
    IF sock = "ok"
    THEN [st EXCEPT !.sent = Append(@, Datagram(packet, addr))]
    ELSE st

CountTx(cs, c) == IF c # 0 THEN [cs EXCEPT ![c].tx = @ + 1] ELSE cs

\* send_reliable that transmits first and registers the entry only when
\* sock.sendto succeeded
send_reliable_send_first(st, packet, addr, on_ack, on_timeout) ==
    IF packet.message_type = ACK \/ sock # "ok"
    THEN _send_packet(st, packet, addr)
    ELSE LET tracked == on_ack \/ on_timeout
             c == IF tracked THEN Len(st.calls) + 1 ELSE 0
             entry == [packet |-> packet, addr |-> addr, sent_time |-> "recent",
                       first_time |-> "recent", retries |-> 0,
                       on_ack |-> IF on_ack THEN c ELSE 0,
                       on_timeout |-> IF on_timeout THEN c ELSE 0,
                       call |-> c]
             rec == [id |-> packet.message_id, addr |-> addr,
                     tx |-> 1, fired |-> <<>>]
         IN  [pending |-> DictSet(st.pending, packet.message_id, entry),
              calls |-> IF tracked THEN Append(st.calls, rec) ELSE st.calls,
              sent |-> Append(st.sent, Datagram(packet, addr))]

\* send_reliable without the early return for an ACK
send_reliable_track_all(st, packet, addr, on_ack, on_timeout) ==
    LET tracked == on_ack \/ on_timeout
        c == IF tracked THEN Len(st.calls) + 1 ELSE 0
        entry == [packet |-> packet, addr |-> addr, sent_time |-> "recent",
                  first_time |-> "recent", retries |-> 0,
                  on_ack |-> IF on_ack THEN c ELSE 0,
                  on_timeout |-> IF on_timeout THEN c ELSE 0,
                  call |-> c]
        rec == [id |-> packet.message_id, addr |-> addr,
                tx |-> 1, fired |-> <<>>]
    IN  [pending |-> DictSet(st.pending, packet.message_id, entry),
         calls |-> IF tracked THEN Append(st.calls, rec) ELSE st.calls,
         sent |-> Append(st.sent, Datagram(packet, addr))]

\* The entry is registered under the lock, then the packet is transmitted
\* (transmit: FALSE stops after the registration).
\* first_time is history the code does not keep: the stamp of the first
\* transmission, which no later step resets.  The record of the call counts
\* the calls of sock.sendto made for it (tx).
send_reliable_steps(st, packet, addr, on_ack, on_timeout, transmit) ==
    IF packet.message_type = ACK
    THEN _send_packet(st, packet, addr)
    ELSE LET tracked == on_ack \/ on_timeout
             c == IF tracked THEN Len(st.calls) + 1 ELSE 0
             entry == [packet |-> packet, addr |-> addr, sent_time |-> "recent",
                       first_time |-> "recent", retries |-> 0,
                       on_ack |-> IF on_ack THEN c ELSE 0,
                       on_timeout |-> IF on_timeout THEN c ELSE 0,
                       call |-> c]
             rec == [id |-> packet.message_id, addr |-> addr,
                     tx |-> 1, fired |-> <<>>]
             registered ==
                 [pending |-> DictSet(st.pending, packet.message_id, entry),
                  calls |-> IF tracked THEN Append(st.calls, rec) ELSE st.calls,
                  sent |-> st.sent]
         IN  IF transmit THEN _send_packet(registered, packet, addr)
                         ELSE registered

\* with self.lock: self.pending_messages[packet.message_id] = {...}
register(st, packet, addr, on_ack, on_timeout) ==
    send_reliable_steps(st, packet, addr, on_ack, on_timeout, FALSE)

send_reliable(st, packet, addr, on_ack, on_timeout) ==
    send_reliable_steps(st, packet, addr, on_ack, on_timeout, TRUE)

\* pending['on_ack'](delivery_time, pending['retries']).  The invocation is
\* recorded with its two arguments (d: the elapsed time it was given is
\* "recent" when at most ack_timeout, "expired" when more) and, for
\* comparison, with the time elapsed since the first transmission (e).
InvokeOnAck(cs, entry, delivery_time) ==
    IF entry.on_ack # 0
    THEN [cs EXCEPT ![entry.on_ack].fired =
              Append(@, [h |-> "on_ack", r |-> entry.retries,
                         d |-> delivery_time, e |-> entry.first_time])]
    ELSE cs

\* pending['on_timeout'](pending['retries'])
InvokeOnTimeout(cs, entry) ==
    IF entry.on_timeout # 0
    THEN [cs EXCEPT ![entry.on_timeout].fired =
              Append(@, [h |-> "on_timeout", r |-> entry.retries,
                         d |-> None, e |-> entry.first_time])]
    ELSE cs

\* handle_ack that reads the entry where the code pops it
handle_ack_get(st, ack_packet) ==
    LET original_message_id == ack_packet.content IN
    IF original_message_id \in DOMAIN st.pending
    THEN LET entry == st.pending[original_message_id]
             delivery_time == entry.sent_time
         IN  [st EXCEPT !.calls = InvokeOnAck(@, entry, delivery_time)]
    ELSE st

\* handle_ack that takes an entry whatever id the ACK names
handle_ack_any(st, ack_packet) ==
    IF DOMAIN st.pending # {}
    THEN LET original_message_id == CHOOSE m \in DOMAIN st.pending : TRUE
             entry == st.pending[original_message_id]
             delivery_time == entry.sent_time
         IN  [st EXCEPT !.pending = DictDel(@, original_message_id),
                        !.calls = InvokeOnAck(@, entry, delivery_time)]
    ELSE st

handle_ack(st, ack_packet) ==
    LET original_message_id == ack_packet.content IN
    IF original_message_id \in DOMAIN st.pending
    THEN LET entry == st.pending[original_message_id]
             delivery_time == entry.sent_time
         IN  [st EXCEPT !.pending = DictDel(@, original_message_id),
                        !.calls = InvokeOnAck(@, entry, delivery_time)]
    ELSE st

\* The first locked block of one pass of _check_timeouts
\* current_time - pending['sent_time'] > self.ack_timeout, with
\* current_time = time.time()
Expired(p) ==
    {m \in DOMAIN p : p[m].sent_time = "expired"}
ToRetry(p) ==
    {m \in Expired(p) : p[m].retries < MaxRetries}
ToTimeout(p) ==
    {m \in Expired(p) : ~(p[m].retries < MaxRetries)}

SweepIdle == [pc |-> "idle", current_time |-> "recent", to_retry |-> {},
              to_timeout |-> {}]

\* What is left of the pass: back to the top of the loop when nothing is
SweepRest(current_time, to_retry, to_timeout) ==
    IF to_retry = {} /\ to_timeout = {}
    THEN SweepIdle
    ELSE [pc |-> "busy", current_time |-> current_time,
          to_retry |-> to_retry, to_timeout |-> to_timeout]

\* The record of a step: the operation, the packet and address it was given,
\* and the datagrams it handed to sock.sendto, in order
Op(op, packet, addr, sent) ==
    [op |-> op, packet |-> packet, addr |-> addr, sent |-> sent]

\* A step of a timer thread or of the clock
Quiet == Op("step", NoPacket, None, <<>>)

\* while self.running: scan the pending set under the lock
SweepScan ==
    /\ running
    /\ sweep.pc = "idle"
    /\ sweep' = SweepRest("recent", ToRetry(pending), ToTimeout(pending))
    /\ last' = Quiet
    /\ UNCHANGED <<pending, running, calls, srvVars>>

\* for msg_id in to_retry: one iteration, under the lock
SweepRetry ==
    /\ sweep.pc = "busy"
    /\ \E m \in sweep.to_retry :
        /\ sweep' = SweepRest(sweep.current_time, sweep.to_retry \ {m}, sweep.to_timeout)
        /\ IF m \in DOMAIN pending
           THEN LET st == _send_packet(RUState(pending, calls, <<>>),
                                       pending[m].packet, pending[m].addr)
                IN  /\ pending' = [pending EXCEPT ![m].retries = @ + 1,
                                                  ![m].sent_time = sweep.current_time]
                    /\ calls' = CountTx(calls, pending[m].call)
                    /\ last' = Op("retry", pending[m].packet, pending[m].addr, st.sent)
           ELSE /\ UNCHANGED <<pending, calls>>
                /\ last' = Op("retry", NoPacket, None, <<>>)
    /\ UNCHANGED <<running, srvVars>>

\* for msg_id in to_timeout: one iteration, under the lock
SweepTimeout ==
    /\ sweep.pc = "busy"
    /\ sweep.to_retry = {}
    /\ \E m \in sweep.to_timeout :
        /\ sweep' = SweepRest(sweep.current_time, {}, sweep.to_timeout \ {m})
        /\ IF m \in DOMAIN pending
           THEN /\ pending' = DictDel(pending, m)
                /\ calls' = InvokeOnTimeout(calls, pending[m])
           ELSE UNCHANGED <<pending, calls>>
        /\ last' = Quiet
    /\ UNCHANGED <<running, srvVars>>

\* More than ack_timeout passes
Tick ==
    /\ pending' = [m \in DOMAIN pending |->
                       [pending[m] EXCEPT !.sent_time = "expired",
                                          !.first_time = "expired"]]
    /\ sweep' = IF sweep.pc = "busy"
                THEN [sweep EXCEPT !.current_time = "expired"]
                ELSE sweep
    /\ last' = Quiet
    /\ UNCHANGED <<running, calls, srvVars>>


----------------------------------------------------------------------------
(* A caller of one ReliableUDP instance: any packet to any address, and    *)
(* any ACK arriving at any time.                                           *)

\* A message_id names one packet: a chat message sent with handlers (as
\* _broadcast_message does) or a user list sent without (as
\* _broadcast_user_list does)
PacketOf(m) ==
    Packet(IF m % 2 = 1 THEN MESSAGE ELSE USER_LIST, "server", m, "text", None)

\* create_ack that carries the ACK's own message_id as its content
create_ack_own_id(sender, original_message_id) ==
    Packet(ACK, sender, 0, 0, None)

\* The message_id of an ACK is a uuid no other packet carries
create_ack(sender, original_message_id) ==
    Packet(ACK, sender, 0, original_message_id, None)

RUPackets == {PacketOf(m) : m \in MsgIds} \cup {create_ack("server", 1)}

SendReliable ==
    \E packet \in RUPackets, addr \in Addrs :
        LET cb == packet.message_type = MESSAGE
            st == send_reliable(RUState(pending, calls, <<>>), packet, addr, cb, cb)
        IN  /\ cb => Len(calls) < MaxCalls
            /\ pending' = st.pending
            /\ calls' = st.calls
            /\ last' = Op("send_reliable", packet, addr, st.sent)
            /\ UNCHANGED <<running, sweep, srvVars>>

HandleAck ==
    \E m \in MsgIds \cup {0} :
        LET ack_packet == create_ack("peer", m)
            st == handle_ack(RUState(pending, calls, <<>>), ack_packet)
        IN  /\ pending' = st.pending
            /\ calls' = st.calls
            /\ last' = Op("handle_ack", ack_packet, None, st.sent)
            /\ UNCHANGED <<running, sweep, srvVars>>

----------------------------------------------------------------------------
(* server.py *)

\* ChatServer.clients is a dict: a sequence of entries in insertion order
ClientNames(cl) == {cl[i].name : i \in 1..Len(cl)}
\* The address of the first entry, whoever was asked for
ClientAddrFirst(cl, u) == cl[1].addr
ClientAddr(cl, u) == cl[CHOOSE i \in 1..Len(cl) : cl[i].name = u].addr
ClientAdd(cl, u, a) == Append(cl, [name |-> u, addr |-> a])
\* del self.clients[username] forgotten
ClientKeep(cl, u) == cl
\* Removal of every entry registered from the address of u
ClientDelByAddr(cl, u) ==
    SelectSeq(cl, LAMBDA e : e.addr # cl[CHOOSE i \in 1..Len(cl) : cl[i].name = u].addr)
ClientDel(cl, u) == SelectSeq(cl, LAMBDA e : e.name # u)

\* The k-th message_id generated by this endpoint (uuid4: never repeated,
\* never equal to an id generated by another endpoint)
FreshId(k) == 100 + k

\* The message_id a client generated for the packet of a kind it sends (and
\* resends): one id per client and kind
ClientId(u, kind) ==
    10 * (CASE u = "alice" -> 1 [] u = "bob" -> 2 [] OTHER -> 3)
    + (CASE kind = JOIN -> 1 [] kind = LEAVE -> 2 [] kind = MESSAGE -> 3
         [] kind = PRIVATE_MESSAGE -> 4 [] kind = HEARTBEAT -> 5 [] OTHER -> 6)

create_message(message_id, sender, content) ==
    Packet(MESSAGE, sender, message_id, content, None)

create_user_list(message_id, sender, users) ==
    Packet(USER_LIST, sender, message_id, users, None)

RECURSIVE BroadcastFrom(_, _, _, _, _, _)
BroadcastFrom(st, clients_copy, i, packet, exclude, handlers) ==
    IF i > Len(clients_copy)
    THEN st
    ELSE BroadcastFrom(
             IF clients_copy[i].name # exclude
             THEN send_reliable(st, packet, clients_copy[i].addr, handlers, handlers)
             ELSE st,
             clients_copy, i + 1, packet, exclude, handlers)

\* _broadcast_message that skips nobody
_broadcast_message_all(st, cl, packet, exclude) ==
    BroadcastFrom(st, cl, 1, packet, None, TRUE)

_broadcast_message(st, cl, packet, exclude) ==
    BroadcastFrom(st, cl, 1, packet, exclude, TRUE)

\* _broadcast_user_list sending the registry without its newest entry
_broadcast_user_list_stale(st, cl, message_id) ==
    BroadcastFrom(st, cl, 1,
                  create_user_list(message_id, "server", SubSeq(cl, 1, Len(cl) - 1)),
                  None, FALSE)

_broadcast_user_list(st, cl, message_id) ==
    BroadcastFrom(st, cl, 1, create_user_list(message_id, "server", cl), None, FALSE)

\* with self.lock: self.client_last_seen[packet.sender] = time.time()
Seen(sender) == DictSet(client_last_seen, sender, "fresh")

Commit(st) ==
    /\ pending' = st.pending
    /\ calls' = st.calls

\* _handle_join without the test for an already registered username:
\* self.clients[username] = addr overwrites the entry in place
RecvJoinOverwrite ==
    \E sender \in Users : \E addr \in SourceAddrs(sender) :
        LET packet == Packet(JOIN, sender, ClientId(sender, JOIN), "join_request", None)
            username == packet.sender
            cl == IF username \in ClientNames(clients)
                  THEN [i \in 1..Len(clients) |->
                           IF clients[i].name = username
                           THEN [name |-> username, addr |-> addr]
                           ELSE clients[i]]
                  ELSE ClientAdd(clients, username, addr)
            st0 == _send_packet(RUState(pending, calls, <<>>),
                                create_ack("server", packet.message_id), addr)
            st1 == _broadcast_user_list(st0, cl, FreshId(next_id + 1))
            join_notification ==
                create_message(FreshId(next_id + 2), "server",
                               <<username, "joined the chat">>)
            st2 == _broadcast_message(st1, cl, join_notification, username)
        IN  /\ role = "server"
            /\ received < MaxRecv
            /\ received' = received + 1
            /\ next_id + 2 <= MaxFresh
            /\ clients' = cl
            /\ client_last_seen' = DictSet(Seen(packet.sender), username, "fresh")
            /\ next_id' = next_id + 2
            /\ Commit(st2)
            /\ last' = Op(JOIN, packet, addr, st2.sent)
            /\ UNCHANGED <<running, sweep, message_count, hb, client, role, auxVars>>

RecvJoin ==
    \E sender \in Users : \E addr \in SourceAddrs(sender) :
        LET packet == Packet(JOIN, sender, ClientId(sender, JOIN), "join_request", None)
            username == packet.sender
        IN  /\ role = "server"
            /\ received < MaxRecv
            /\ received' = received + 1
            /\ IF username \in ClientNames(clients)
               THEN /\ client_last_seen' = Seen(packet.sender)
                    /\ last' = Op(JOIN, packet, addr, <<>>)
                    /\ UNCHANGED <<pending, calls, clients, next_id>>
               ELSE LET cl == ClientAdd(clients, username, addr)
                        st0 == _send_packet(RUState(pending, calls, <<>>),
                                            create_ack("server", packet.message_id), addr)
                        st1 == _broadcast_user_list(st0, cl, FreshId(next_id + 1))
                        join_notification ==
                            create_message(FreshId(next_id + 2), "server",
                                           <<username, "joined the chat">>)
                        st2 == _broadcast_message(st1, cl, join_notification, username)
                    IN  /\ next_id + 2 <= MaxFresh
                        /\ clients' = cl
                        /\ client_last_seen' = DictSet(Seen(packet.sender), username, "fresh")
                        /\ next_id' = next_id + 2
                        /\ Commit(st2)
                        /\ last' = Op(JOIN, packet, addr, st2.sent)
            /\ UNCHANGED <<running, sweep, message_count, hb, client, role, auxVars>>

RecvLeave ==
    \E sender \in Users : \E addr \in SourceAddrs(sender) :
        LET packet == Packet(LEAVE, sender, ClientId(sender, LEAVE), "leave_request", None)
            username == packet.sender
            present == username \in ClientNames(clients)
            cl == IF present THEN ClientDel(clients, username) ELSE clients
            st0 == _send_packet(RUState(pending, calls, <<>>),
                                create_ack("server", packet.message_id), addr)
            st1 == _broadcast_user_list(st0, cl, FreshId(next_id + 1))
            leave_notification ==
                create_message(FreshId(next_id + 2), "server",
                               <<username, "left the chat">>)
            st2 == _broadcast_message(st1, cl, leave_notification, None)
        IN  /\ role = "server"
            /\ received < MaxRecv
            /\ received' = received + 1
            /\ next_id + 2 <= MaxFresh
            /\ clients' = cl
            /\ client_last_seen' = IF present
                                   THEN DictDel(Seen(packet.sender), username)
                                   ELSE Seen(packet.sender)
            /\ next_id' = next_id + 2
            /\ Commit(st2)
            /\ last' = Op(LEAVE, packet, addr, st2.sent)
            /\ UNCHANGED <<running, sweep, message_count, hb, client, role, auxVars>>

RecvMessage ==
    \E sender \in Users : \E addr \in SourceAddrs(sender) :
        LET packet == Packet(MESSAGE, sender, ClientId(sender, MESSAGE), "hi", None)
            st0 == _send_packet(RUState(pending, calls, <<>>),
                                create_ack("server", packet.message_id), addr)
            st1 == _broadcast_message(st0, clients, packet, packet.sender)
        IN  /\ role = "server"
            /\ received < MaxRecv
            /\ received' = received + 1
            /\ client_last_seen' = Seen(packet.sender)
            /\ message_count' = message_count + 1
            /\ Commit(st1)
            /\ last' = Op(MESSAGE, packet, addr, st1.sent)
            /\ UNCHANGED <<running, sweep, clients, next_id, hb, client, role, auxVars>>

RecvPrivate ==
    \E sender \in Users, recipient \in Users : \E addr \in SourceAddrs(sender) :
        LET packet == Packet(PRIVATE_MESSAGE, sender, ClientId(sender, PRIVATE_MESSAGE), "psst", recipient)
            online == packet.recipient \in ClientNames(clients)
            st0 == _send_packet(RUState(pending, calls, <<>>),
                                create_ack("server", packet.message_id), addr)
            error_packet ==
                create_message(FreshId(next_id + 1), "server",
                               <<packet.recipient, "is not online">>)
            st1 == IF online
                   THEN send_reliable(st0, packet, ClientAddr(clients, packet.recipient),
                                      TRUE, TRUE)
                   ELSE send_reliable(st0, error_packet, addr, FALSE, FALSE)
        IN  /\ role = "server"
            /\ received < MaxRecv
            /\ received' = received + 1
            /\ online \/ next_id < MaxFresh
            /\ client_last_seen' = Seen(packet.sender)
            /\ message_count' = message_count + 1
            /\ next_id' = IF online THEN next_id ELSE next_id + 1
            /\ Commit(st1)
            /\ last' = Op(PRIVATE_MESSAGE, packet, addr, st1.sent)
            /\ UNCHANGED <<running, sweep, clients, hb, client, role, auxVars>>

RecvHeartbeat ==
    \E sender \in Users : \E addr \in SourceAddrs(sender) :
        LET packet == Packet(HEARTBEAT, sender, ClientId(sender, HEARTBEAT), "heartbeat", None)
            st0 == _send_packet(RUState(pending, calls, <<>>),
                                create_ack("server", packet.message_id), addr)
        IN  /\ role = "server"
            /\ received < MaxRecv
            /\ received' = received + 1
            /\ client_last_seen' = Seen(packet.sender)
            /\ last' = Op(HEARTBEAT, packet, addr, st0.sent)
            /\ UNCHANGED <<pending, calls, running, sweep, clients, message_count,
                           next_id, hb, client, role, auxVars>>

\* An ACK for a pending id, or for an id that is not pending (0)
RecvAck ==
    \E sender \in Users, m \in (DOMAIN pending) \cup {0} : \E addr \in SourceAddrs(sender) :
        LET packet == create_ack(sender, m)
            st0 == handle_ack(RUState(pending, calls, <<>>), packet)
        IN  /\ role = "server"
            /\ received < MaxRecv
            /\ received' = received + 1
            /\ client_last_seen' = Seen(packet.sender)
            /\ Commit(st0)
            /\ last' = Op(ACK, packet, addr, st0.sent)
            /\ UNCHANGED <<running, sweep, clients, message_count, next_id, hb,
                           client, role, auxVars>>

\* A packet of a kind _handle_packet has no branch for
RecvOther ==
    \E sender \in Users : \E addr \in SourceAddrs(sender) :
        LET packet == Packet(ERROR, sender, ClientId(sender, ERROR), "oops", None)
        IN  /\ role = "server"
            /\ received < MaxRecv
            /\ received' = received + 1
            /\ client_last_seen' = Seen(packet.sender)
            /\ last' = Op(ERROR, packet, addr, <<>>)
            /\ UNCHANGED <<pending, calls, running, sweep, clients, message_count,
                           next_id, hb, client, role, auxVars>>

HbIdle == [pc |-> "idle", inactive_users |-> {}]

HbRest(inactive_users) ==
    IF inactive_users = {}
    THEN HbIdle
    ELSE [pc |-> "busy", inactive_users |-> inactive_users]

\* inactive_users with the comparison of the scan turned around
InactiveUsersFresh(cls) == {u \in DOMAIN cls : cls[u] # "stale"}

\* inactive_users after the scan: the names whose last-seen stamp is older
\* than the timeout
InactiveUsers(cls) == {u \in DOMAIN cls : cls[u] = "stale"}

\* _heartbeat_checker: the scan of client_last_seen under the lock
\* (current_time - last_seen > 60, with current_time = time.time())
HbScan ==
    /\ role = "server"
    /\ hb.pc = "idle"
    /\ hb' = HbRest(InactiveUsers(client_last_seen))
    /\ last' = Op("scan", NoPacket, None, <<>>)
    /\ UNCHANGED <<received, ruVars, clients, client_last_seen, message_count, next_id,
                   client, role, auxVars>>

\* _heartbeat_checker: one iteration of for username in inactive_users
HbEvict ==
    \E username \in hb.inactive_users :
        LET present == username \in ClientNames(clients)
            cl == IF present THEN ClientDel(clients, username) ELSE clients
            st1 == _broadcast_user_list(RUState(pending, calls, <<>>), cl,
                                        FreshId(next_id + 1))
            leave_notification ==
                create_message(FreshId(next_id + 2), "server",
                               <<username, "disconnected (timeout)">>)
            st2 == _broadcast_message(st1, cl, leave_notification, None)
        IN  /\ role = "server"
            /\ hb.pc = "busy"
            /\ next_id + 2 <= MaxFresh
            /\ hb' = HbRest(hb.inactive_users \ {username})
            /\ clients' = cl
            /\ client_last_seen' = IF present
                                   THEN DictDel(client_last_seen, username)
                                   ELSE client_last_seen
            /\ next_id' = next_id + 2
            /\ Commit(st2)
            /\ last' = Op("evict", Packet(None, username, 0, None, None), None, st2.sent)
            /\ UNCHANGED <<received, running, sweep, message_count, client, role, auxVars>>

\* More than the liveness timeout passes
Minute ==
    /\ role = "server"
    /\ client_last_seen' = [u \in DOMAIN client_last_seen |-> "stale"]
    /\ last' = Quiet
    /\ UNCHANGED <<received, ruVars, clients, message_count, next_id, hb, client, role, auxVars>>

----------------------------------------------------------------------------
(* client_gui.py *)

ServerAddr == "server_addr"

NoClient == [username |-> None, reliable_udp |-> FALSE, connected |-> FALSE]

create_join(message_id, sender) ==
    Packet(JOIN, sender, message_id, "join_request", None)

\* _on_join_ack, the on_ack handler of the JOIN (the first tracked call)
Connected(cs) ==
    /\ Len(cs) >= 1
    /\ \E i \in 1..Len(cs[1].fired) : cs[1].fired[i].h = "on_ack"

ClientConnect ==
    \E username \in Users :
        LET join_packet == create_join(FreshId(next_id + 1), username)
            st == send_reliable(RUState(pending, calls, <<>>), join_packet,
                                ServerAddr, TRUE, TRUE)
        IN  /\ role = "client"
            /\ ~client.reliable_udp
            /\ client' = [username |-> username, reliable_udp |-> TRUE,
                          connected |-> FALSE]
            /\ next_id' = next_id + 1
            /\ Commit(st)
            /\ last' = Op("connect", join_packet, ServerAddr, st.sent)
            /\ UNCHANGED <<received, running, sweep, clients, client_last_seen,
                           message_count, hb, role, auxVars>>

\* _handle_packet of the client without the test for an ACK before the reply
ClientRecvAckAll ==
    \E kind \in {MESSAGE, PRIVATE_MESSAGE, USER_LIST, ACK, HEARTBEAT},
       addr \in Addrs \cup {ServerAddr}, m \in MsgIds \cup (DOMAIN pending) :
        LET packet == IF kind = ACK
                      THEN create_ack("server", m)
                      ELSE Packet(kind, "server", m, "text", None)
            st0 == _send_packet(RUState(pending, calls, <<>>),
                                create_ack(client.username, packet.message_id), addr)
            st1 == IF packet.message_type = ACK THEN handle_ack(st0, packet) ELSE st0
        IN  /\ role = "client"
            /\ client.reliable_udp
            /\ Commit(st1)
            /\ client' = [client EXCEPT !.connected = @ \/ Connected(st1.calls)]
            /\ last' = Op("client_recv", packet, addr, st1.sent)
            /\ UNCHANGED <<received, running, sweep, clients, client_last_seen,
                           message_count, next_id, hb, role, auxVars>>

\* _receive_loop / _handle_packet of the client
ClientRecv ==
    \E kind \in {MESSAGE, PRIVATE_MESSAGE, USER_LIST, ACK, HEARTBEAT},
       addr \in Addrs \cup {ServerAddr}, m \in MsgIds \cup (DOMAIN pending) :
        LET packet == IF kind = ACK
                      THEN create_ack("server", m)
                      ELSE Packet(kind, "server", m, "text", None)
            st0 == IF packet.message_type # ACK
                   THEN _send_packet(RUState(pending, calls, <<>>),
                                     create_ack(client.username, packet.message_id), addr)
                   ELSE RUState(pending, calls, <<>>)
            st1 == IF packet.message_type = ACK THEN handle_ack(st0, packet) ELSE st0
        IN  /\ role = "client"
            /\ client.reliable_udp
            /\ Commit(st1)
            /\ client' = [client EXCEPT !.connected = @ \/ Connected(st1.calls)]
            /\ last' = Op("client_recv", packet, addr, st1.sent)
            /\ UNCHANGED <<received, running, sweep, clients, client_last_seen,
                           message_count, next_id, hb, role, auxVars>>

----------------------------------------------------------------------------

\* No packet on its way through the codec
NoWire == [stage |-> "none", origin |-> "none", packet |-> NoPacket,
           data |-> Bytes(TRUE, "malformed", NoMembers), parsed |-> PyNone]
\* The threads at the top of their loops, both locks free, and nobody
\* inside send_reliable
ThInit == [running |-> TRUE, recv |-> "top", data |-> Bytes(TRUE, "malformed", NoMembers),
           retry |-> "top", hbeat |-> "top", lock |-> "free", ru_lock |-> "free",
           send |-> [pc |-> "idle", packet |-> NoPacket, addr |-> None]]

InitWith(r) ==
    /\ received = 0
    /\ pending = EmptyDict
    /\ running = TRUE
    /\ sweep = SweepIdle
    /\ calls = <<>>
    /\ clients = <<>>
    /\ client_last_seen = EmptyDict
    /\ message_count = 0
    /\ next_id = 0
    /\ hb = HbIdle
    /\ client = NoClient
    /\ role = r
    /\ sock = "ok"
    /\ th = ThInit
    /\ net = {}
    /\ last = Quiet

\* One ReliableUDP instance, its retry thread and its callers
RUInit == InitWith("caller") /\ wire = NoWire

\* sock.sendto starts or stops failing (the network is unreachable, the
\* socket was closed)
SockFault ==
    /\ sock' = IF sock = "ok" THEN "error" ELSE "ok"
    /\ last' = Quiet
    /\ UNCHANGED <<received, ruVars, clients, client_last_seen, message_count,
                   next_id, hb, client, role, wire, th, net>>

RUNext ==
    \/ SendReliable
    \/ HandleAck
    \/ SweepScan
    \/ SweepRetry
    \/ SweepTimeout
    \/ Tick

RUSpec == RUInit /\ [][RUNext]_vars

\* The same with a socket whose sendto may fail
FaultNext ==
    \/ RUNext
    \/ SockFault

FaultSpec == RUInit /\ [][FaultNext]_vars

\* stop(): self.running = False, then the retry thread is joined.  The thread
\* leaves its loop the next time it tests self.running, at the top of a
\* pass, so stop() returns no earlier than the first state in which running
\* is FALSE and no pass is under way.
Stop ==
    /\ running
    /\ running' = FALSE
    /\ last' = Op("stop", NoPacket, None, <<>>)
    /\ UNCHANGED <<pending, sweep, calls, srvVars>>

\* One ReliableUDP instance that is stopped at some time
StopNext ==
    \/ RUNext
    \/ Stop

StopSpec == RUInit /\ [][StopNext]_vars

\* The codec of protocol.py on its own: a packet of the program is
\* serialized and the bytes are parsed, or bytes arrive from the network and
\* are parsed.
CodecPackets ==
    {[Packet(t, s, m, c, r) EXCEPT !.timestamp = ts] :
        t \in {MESSAGE, PRIVATE_MESSAGE, ACK}, s \in {"alice", "server"},
        m \in MsgIds, c \in {"text", ""}, r \in {None, "", "bob"},
        ts \in {0, 1}}

\* Datagrams anybody may send to the socket: bytes that are not UTF-8, text
\* that is not JSON, a JSON array, brackets nested too deep for json.loads,
\* and objects with a missing, an unexpected, or no recipient member
NetworkData ==
    LET members == to_json(Packet(MESSAGE, "alice", 1, "text", None))
        without(k) == [x \in Fields \ {k} |-> members[x]]
        extra == [x \in Fields \cup {"x"} |->
                     IF x \in Fields THEN members[x] ELSE JsonNull]
    IN  {Bytes(FALSE, "malformed", NoMembers), Bytes(TRUE, "malformed", NoMembers),
         Bytes(TRUE, "array", NoMembers), Bytes(TRUE, "deep", NoMembers),
         Bytes(TRUE, "object", without("sender")), Bytes(TRUE, "object", extra),
         Bytes(TRUE, "object", without("recipient"))}

CodecInit ==
    /\ InitWith("codec")
    /\ wire \in {[NoWire EXCEPT !.stage = "packet", !.origin = "packet",
                                !.packet = p] : p \in CodecPackets}
               \cup {[NoWire EXCEPT !.stage = "data", !.origin = "network",
                                    !.data = d] : d \in NetworkData}

\* PacketParser.serialize(packet)
Serialize ==
    /\ wire.stage = "packet"
    /\ wire' = [wire EXCEPT !.stage = "data", !.data = serialize(wire.packet)]
    /\ UNCHANGED <<received, ruVars, clients, client_last_seen, message_count,
                   next_id, hb, client, role, sock, th, net, last>>

\* PacketParser.parse(data)
Parse ==
    /\ wire.stage = "data"
    /\ wire' = [wire EXCEPT !.stage = "parsed", !.parsed = parse(wire.data)]
    /\ UNCHANGED <<received, ruVars, clients, client_last_seen, message_count,
                   next_id, hb, client, role, sock, th, net, last>>

CodecNext ==
    \/ Serialize
    \/ Parse

CodecSpec == CodecInit /\ [][CodecNext]_vars

----------------------------------------------------------------------------
(* send_reliable step by step, with the network and the peer.  The caller  *)
(* sends packets with new message ids; a datagram in flight is lost or     *)
(* reaches the peer, which answers with an ACK; the ACK in flight reaches  *)
(* the receive thread, which calls handle_ack.  Packets are acknowledged   *)
(* within ack_timeout here: the retry thread does nothing.                 *)

SendIdle == [pc |-> "idle", packet |-> NoPacket, addr |-> None]

sendOnly == <<received, running, sweep, clients, client_last_seen, message_count,
              hb, client, role, sock, wire>>

\* The transmission first, the registration after it
SendStepsSwapped ==
    \/ /\ th.send.pc = "idle"
       /\ next_id + 1 \in MsgIds
       /\ \E addr \in Addrs :
           LET packet == PacketOf(next_id + 1)
               st == _send_packet(RUState(pending, calls, <<>>), packet, addr)
           IN  /\ net' = net \cup {st.sent[i] : i \in 1..Len(st.sent)}
               /\ th' = [th EXCEPT !.send = [pc |-> "transmitted",
                                             packet |-> packet, addr |-> addr]]
               /\ next_id' = next_id + 1
               /\ last' = Op("transmit", packet, addr, st.sent)
               /\ UNCHANGED <<pending, calls>>
       /\ UNCHANGED sendOnly
    \/ /\ th.send.pc = "transmitted"
       /\ LET packet == th.send.packet
              cb == packet.message_type = MESSAGE
              st == register(RUState(pending, calls, <<>>), packet, th.send.addr, cb, cb)
          IN  /\ pending' = st.pending
              /\ calls' = st.calls
              /\ th' = [th EXCEPT !.send = SendIdle]
              /\ last' = Op("register", packet, th.send.addr, <<>>)
              /\ UNCHANGED <<net, next_id>>
       /\ UNCHANGED sendOnly

\* send_reliable up to the end of its locked block: the entry is stored
SendRegister ==
    /\ th.send.pc = "idle"
    /\ next_id + 1 \in MsgIds
    /\ \E addr \in Addrs :
        LET packet == PacketOf(next_id + 1)
            cb == packet.message_type = MESSAGE
            st == register(RUState(pending, calls, <<>>), packet, addr, cb, cb)
        IN  /\ pending' = st.pending
            /\ calls' = st.calls
            /\ th' = [th EXCEPT !.send = [pc |-> "registered",
                                          packet |-> packet, addr |-> addr]]
            /\ next_id' = next_id + 1
            /\ last' = Op("register", packet, addr, <<>>)
            /\ UNCHANGED net
    /\ UNCHANGED sendOnly

\* ... then self._send_packet(packet, addr)
SendTransmit ==
    /\ th.send.pc = "registered"
    /\ LET st == _send_packet(RUState(pending, calls, <<>>), th.send.packet,
                              th.send.addr)
       IN  /\ net' = net \cup {st.sent[i] : i \in 1..Len(st.sent)}
           /\ last' = Op("transmit", th.send.packet, th.send.addr, st.sent)
    /\ th' = [th EXCEPT !.send = SendIdle]
    /\ UNCHANGED <<pending, calls, next_id>>
    /\ UNCHANGED sendOnly

SendReliableSteps ==
    \/ SendRegister
    \/ SendTransmit

\* A datagram in flight is lost, or reaches the peer, which answers with an
\* ACK carrying its message_id (client_gui.py:583-585)
PeerReceive ==
    /\ \E d \in net, lost \in BOOLEAN :
        /\ d.packet.message_type # ACK
        /\ net' = (net \ {d}) \cup
                   IF lost THEN {}
                   ELSE {Datagram(create_ack("peer", d.packet.message_id), "self")}
        /\ last' = Op("peer", d.packet, d.addr, <<>>)
    /\ UNCHANGED <<pending, calls, next_id, th>>
    /\ UNCHANGED sendOnly

\* An ACK in flight reaches the receive thread: handle_ack(packet)
AckArrives ==
    /\ \E d \in net :
        /\ d.packet.message_type = ACK
        /\ LET st == handle_ack(RUState(pending, calls, <<>>), d.packet)
           IN  /\ pending' = st.pending
               /\ calls' = st.calls
               /\ last' = Op("handle_ack", d.packet, None, st.sent)
        /\ net' = net \ {d}
    /\ UNCHANGED <<next_id, th>>
    /\ UNCHANGED sendOnly

SendNext ==
    \/ SendReliableSteps
    \/ PeerReceive
    \/ AckArrives

SendSpec == RUInit /\ [][SendNext]_vars

----------------------------------------------------------------------------
(* The loops and the locks.  Three programs run a receive loop: the server *)
(* (server.py start), the GUI client (client_gui.py _receive_loop) and the *)
(* test client (test_clients.py _receive_loop); each owns a ReliableUDP    *)
(* with its retry thread, and the server also runs _heartbeat_checker.     *)
(* th.lock is ChatServer.lock and th.ru_lock is ReliableUDP.lock; each is   *)
(* "free" or names the thread that holds it.  A step is what a thread does  *)
(* between two lock operations or blocking calls.                          *)

thOnly == <<received, ruVars, clients, client_last_seen, message_count, next_id,
            hb, client, role, sock, wire, net, last>>

\* sock.settimeout: the clients set 1.0 (client_gui.py:427,
\* test_clients.py:28); the server's socket is left blocking
SockTimeout(r) == IF r = "server" THEN None ELSE "1.0"

\* What the except clauses around the body of the receive loop do with an
\* exception: the server and the GUI client log it and go on, the test
\* client leaves the loop (break)
Caught(r) == IF r = "test_client" THEN "dead" ELSE "top"

LoopData ==
    NetworkData \cup {serialize(Packet(t, "alice", 1, "text", None)) :
                         t \in {MESSAGE, PRIVATE_MESSAGE, ACK}}

\* while self.running:
RecvTop ==
    /\ th.recv = "top"
    /\ th' = [th EXCEPT !.recv = IF th.running THEN "recvfrom" ELSE "exited"]
    /\ UNCHANGED thOnly

\* data, addr = self.sock.recvfrom(4096) returns a datagram
RecvDatagram ==
    /\ th.recv = "recvfrom"
    /\ \E data \in LoopData : th' = [th EXCEPT !.recv = "parse", !.data = data]
    /\ UNCHANGED thOnly

\* recvfrom raises socket.timeout: continue
RecvTimeout ==
    /\ th.recv = "recvfrom"
    /\ SockTimeout(role) # None
    /\ th' = [th EXCEPT !.recv = "top"]
    /\ UNCHANGED thOnly

\* packet = PacketParser.parse(data); if packet: self._handle_packet(...)
RecvParse ==
    /\ th.recv = "parse"
    /\ LET outcome == parse(th.data).outcome
       IN  th' = [th EXCEPT !.recv = IF outcome = "none" THEN "top"
                                     ELSE IF outcome = "raised" THEN Caught(role)
                                     ELSE "handle"]
    /\ UNCHANGED thOnly

\* _handle_packet up to its dispatch.  The server first updates
\* client_last_seen under its lock (server.py:74-75); a private message then
\* goes to _handle_private_message, an ACK to handle_ack, anything else to a
\* handler that sends through send_reliable outside the server's lock.  The
\* clients pass an ACK to handle_ack and answer anything else with an ACK.
RecvHandle ==
    /\ th.recv = "handle"
    /\ role = "server" => th.lock = "free"
    /\ LET message_type == parse(th.data).packet.message_type
       IN  th' = [th EXCEPT !.recv =
                     IF message_type = ACK THEN "ack"
                     ELSE IF role # "server" THEN "top"
                     ELSE IF message_type = PRIVATE_MESSAGE THEN "private"
                     ELSE "broadcast"]
    /\ UNCHANGED thOnly

\* _handle_private_message: with self.lock: (server.py:179)
RecvPrivateLock ==
    /\ th.recv = "private"
    /\ th.lock = "free"
    /\ th' = [th EXCEPT !.recv = "private_locked", !.lock = "recv"]
    /\ UNCHANGED thOnly

\* ... self.reliable_udp.send_reliable(...): with self.lock: of ReliableUDP
\* (reliability.py:32), entered while the server's lock is held
RecvPrivateRegister ==
    /\ th.recv = "private_locked"
    /\ th.ru_lock = "free"
    /\ th' = [th EXCEPT !.recv = "private_registering", !.ru_lock = "recv"]
    /\ UNCHANGED thOnly

\* the entry is stored and ReliableUDP's lock released; _send_packet; then
\* the server's lock is released
RecvPrivateDone ==
    /\ th.recv = "private_registering"
    /\ th' = [th EXCEPT !.recv = "top", !.ru_lock = "free", !.lock = "free"]
    /\ UNCHANGED thOnly

\* _broadcast_message: the registry is copied under the server's lock, which
\* is released before the sends
RecvBroadcastCopy ==
    /\ th.recv = "broadcast"
    /\ th.lock = "free"
    /\ th' = [th EXCEPT !.recv = "broadcast_send"]
    /\ UNCHANGED thOnly

\* send_reliable for a destination of the broadcast
RecvBroadcastSend ==
    /\ th.recv = "broadcast_send"
    /\ th.ru_lock = "free"
    /\ th' = [th EXCEPT !.recv = "top"]
    /\ UNCHANGED thOnly

\* handle_ack: with self.lock:
RecvAckLock ==
    /\ th.recv = "ack"
    /\ th.ru_lock = "free"
    /\ th' = [th EXCEPT !.recv = "ack_locked", !.ru_lock = "recv"]
    /\ UNCHANGED thOnly

\* ... pending['on_ack'](delivery_time, retries): the handler returns or
\* raises; the with statement releases the lock either way, and an exception
\* arrives at the except clause of the receive loop
RecvAckHandler ==
    /\ th.recv = "ack_locked"
    /\ \E raises \in BOOLEAN :
           th' = [th EXCEPT !.recv = IF raises THEN Caught(role) ELSE "top",
                            !.ru_lock = "free"]
    /\ UNCHANGED thOnly

\* _check_timeouts: while self.running: ... with self.lock: (the scan, or one
\* iteration of the retry loop or of the timeout loop)
RetryLock ==
    /\ th.retry = "top"
    /\ running
    /\ th.ru_lock = "free"
    /\ \E block \in {"scan", "retry", "timeout"} :
           th' = [th EXCEPT !.retry = block, !.ru_lock = "retry"]
    /\ UNCHANGED thOnly

\* An on_timeout handler that broadcasts the failure: inside the locked
\* block of the timeout loop it arrives at with self.lock: of
\* _broadcast_message
RetryUnlockNotify ==
    /\ th.retry \in {"scan", "retry", "timeout"}
    /\ th' = IF th.retry = "timeout"
             THEN [th EXCEPT !.retry = "handler_broadcast"]
             ELSE [th EXCEPT !.retry = "top", !.ru_lock = "free"]
    /\ UNCHANGED thOnly

\* The locked block ends.  In an iteration of the timeout loop on_timeout was
\* invoked, and it returns or raises: nothing in _check_timeouts catches the
\* exception, so it ends the thread.
RetryUnlock ==
    /\ th.retry \in {"scan", "retry", "timeout"}
    /\ \E raises \in BOOLEAN :
        /\ raises => th.retry = "timeout"
        /\ th' = [th EXCEPT !.retry = IF raises THEN "dead" ELSE "top",
                            !.ru_lock = "free"]
    /\ UNCHANGED thOnly

RetryExit ==
    /\ th.retry = "top"
    /\ ~running
    /\ th' = [th EXCEPT !.retry = "exited"]
    /\ UNCHANGED thOnly

\* _heartbeat_checker: with self.lock: (the scan, or the removal of a user)
HbLock ==
    /\ role = "server"
    /\ th.hbeat = "top"
    /\ th.running
    /\ th.lock = "free"
    /\ th' = [th EXCEPT !.hbeat = "locked", !.lock = "hbeat"]
    /\ UNCHANGED thOnly

\* The locked block ends; after a removal the broadcasts follow
HbUnlock ==
    /\ th.hbeat = "locked"
    /\ \E removed \in BOOLEAN :
           th' = [th EXCEPT !.hbeat = IF removed THEN "broadcast" ELSE "top",
                            !.lock = "free"]
    /\ UNCHANGED thOnly

\* _broadcast_user_list and _broadcast_message of the monitor: the copy
\* under the server's lock, then send_reliable
HbBroadcast ==
    /\ th.hbeat = "broadcast"
    /\ th.lock = "free"
    /\ th.ru_lock = "free"
    /\ th' = [th EXCEPT !.hbeat = "top"]
    /\ UNCHANGED thOnly

\* self.running = False, and ReliableUDP.running = False by stop()
ClearRunning ==
    /\ th.running
    /\ th' = [th EXCEPT !.running = FALSE]
    /\ running' = FALSE
    /\ UNCHANGED <<received, pending, sweep, calls, clients, client_last_seen,
                   message_count, next_id, hb, client, role, sock, wire, net, last>>

LoopInit ==
    \E r \in {"server", "client", "test_client"} : InitWith(r) /\ wire = NoWire

LoopNext ==
    \/ RecvTop
    \/ RecvDatagram
    \/ RecvTimeout
    \/ RecvParse
    \/ RecvHandle
    \/ RecvPrivateLock
    \/ RecvPrivateRegister
    \/ RecvPrivateDone
    \/ RecvBroadcastCopy
    \/ RecvBroadcastSend
    \/ RecvAckLock
    \/ RecvAckHandler
    \/ RetryLock
    \/ RetryUnlock
    \/ RetryExit
    \/ HbLock
    \/ HbUnlock
    \/ HbBroadcast
    \/ ClearRunning

LoopSpec == LoopInit /\ [][LoopNext]_vars

----------------------------------------------------------------------------
(* ReliableUDP used by an application of its own (role "caller"): a thread of
   the application calls send_reliable, and the handlers the application
   registered call back into the same instance.  self.lock is a
   threading.Lock (reliability.py:17): it is not reentrant, an acquire waits
   until the lock is free whoever holds it.  th.send.pc is the position of
   the application's thread: "idle", "lock" at with self.lock: of
   send_reliable, "locked" inside the block. *)

\* on_ack / on_timeout, invoked inside the locked block of handle_ack or of
\* the timeout loop, calls send_reliable or handle_ack and arrives at their
\* with self.lock:
HandlerCalls ==
    /\ role = "caller"
    /\ \/ th.recv = "ack_locked" /\ th' = [th EXCEPT !.recv = "nested"]
       \/ th.retry = "timeout" /\ th' = [th EXCEPT !.retry = "nested"]
    /\ UNCHANGED thOnly

\* The application calls send_reliable with a packet that is not an ACK
MainCalls ==
    /\ role = "caller"
    /\ th.send.pc = "idle"
    /\ th' = [th EXCEPT !.send.pc = "lock"]
    /\ UNCHANGED thOnly

\* with self.lock: of send_reliable and handle_ack, entered by the
\* application's thread or by a handler: the lock is acquired once it is free
WithLock ==
    /\ role = "caller"
    /\ th.ru_lock = "free"
    /\ \/ th.send.pc = "lock"
          /\ th' = [th EXCEPT !.send.pc = "locked", !.ru_lock = "send"]
       \/ th.recv = "nested"
          /\ th' = [th EXCEPT !.recv = "nested_locked", !.ru_lock = "recv"]
       \/ th.retry = "nested"
          /\ th' = [th EXCEPT !.retry = "nested_locked", !.ru_lock = "retry"]
    /\ UNCHANGED thOnly

\* The end of the locked block of send_reliable or handle_ack: the lock is
\* released and the call returns, to the application or into the handler
WithUnlock ==
    /\ role = "caller"
    /\ \/ th.send.pc = "locked"
          /\ th' = [th EXCEPT !.send.pc = "idle", !.ru_lock = "free"]
       \/ th.recv = "nested_locked"
          /\ th' = [th EXCEPT !.recv = "ack_locked", !.ru_lock = "free"]
       \/ th.retry = "nested_locked"
          /\ th' = [th EXCEPT !.retry = "timeout", !.ru_lock = "free"]
    /\ UNCHANGED thOnly

NestInit == InitWith("caller") /\ wire = NoWire

NestNext ==
    \/ RecvTop
    \/ RecvDatagram
    \/ RecvTimeout
    \/ RecvParse
    \/ RecvHandle
    \/ RecvAckLock
    \/ RecvAckHandler
    \/ RetryLock
    \/ RetryUnlock
    \/ RetryExit
    \/ ClearRunning
    \/ HandlerCalls
    \/ MainCalls
    \/ WithLock
    \/ WithUnlock

NestSpec == NestInit /\ [][NestNext]_vars

----------------------------------------------------------------------------
(* The heartbeat thread of the GUI client (client_gui.py).  connect_to_server
   starts it right after the JOIN was handed to send_reliable; th.hbeat is
   its position: "top" at the test of the while loop, "body" inside the loop,
   "sleep" in time.sleep(30), "exited" after the loop. *)

create_heartbeat(message_id, sender) ==
    Packet(HEARTBEAT, sender, message_id, "heartbeat", None)

\* while self.running and self.connected:
HeartbeatTest ==
    /\ role = "client"
    /\ client.reliable_udp
    /\ th.hbeat = "top"
    /\ th' = [th EXCEPT !.hbeat = IF th.running /\ client.connected
                                  THEN "body" ELSE "exited"]
    /\ last' = Op("heartbeat_test", NoPacket, None, <<>>)
    /\ UNCHANGED <<received, ruVars, clients, client_last_seen, message_count,
                   next_id, hb, client, role, sock, wire, net>>

\* self.reliable_udp.send_reliable(Packet.create_heartbeat(self.username),
\* self.server_addr)
HeartbeatSend ==
    LET packet == create_heartbeat(FreshId(next_id + 1), client.username)
        st == send_reliable(RUState(pending, calls, <<>>), packet, ServerAddr,
                            FALSE, FALSE)
    IN  /\ role = "client"
        /\ th.hbeat = "body"
        /\ next_id < MaxFresh
        /\ next_id' = next_id + 1
        /\ Commit(st)
        /\ th' = [th EXCEPT !.hbeat = "sleep"]
        /\ last' = Op(HEARTBEAT, packet, ServerAddr, st.sent)
        /\ UNCHANGED <<received, running, sweep, clients, client_last_seen,
                       message_count, hb, client, role, sock, wire, net>>

\* time.sleep(30) returns
HeartbeatWake ==
    /\ role = "client"
    /\ th.hbeat = "sleep"
    /\ th' = [th EXCEPT !.hbeat = "top"]
    /\ last' = Quiet
    /\ UNCHANGED <<received, ruVars, clients, client_last_seen, message_count,
                   next_id, hb, client, role, sock, wire, net>>

BeatInit == InitWith("client") /\ wire = NoWire

BeatNext ==
    \/ ClientConnect
    \/ ClientRecv
    \/ HeartbeatTest
    \/ HeartbeatSend
    \/ HeartbeatWake

BeatSpec == BeatInit /\ [][BeatNext]_vars

\* An endpoint: the server (receive loop and liveness monitor) or a client
Init == \E r \in {"server", "client"} : InitWith(r) /\ wire = NoWire

Next ==
    \/ RecvJoin
    \/ RecvLeave
    \/ RecvMessage
    \/ RecvPrivate
    \/ RecvHeartbeat
    \/ RecvAck
    \/ RecvOther
    \/ HbScan
    \/ HbEvict
    \/ ClientConnect
    \/ ClientRecv
    \/ Minute

Spec == Init /\ [][Next]_vars

----------------------------------------------------------------------------
(* Properties of the reliable transport, checked under RUSpec *)

Calls == 1..Len(calls)

Fired(c, h) == \E i \in 1..Len(calls[c].fired) : calls[c].fired[i].h = h

\* The pending entry of the send made by call c, while the entry is that
\* call's own
Owns(c) ==
    /\ calls[c].id \in DOMAIN pending
    /\ pending[calls[c].id].call = c

\* C1: for every send_reliable call made with a non-ACK packet, whatever the
\* interleaving of ACKs (duplicate, late) and sweep passes, on_ack is invoked
\* at most once, on_timeout at most once, and never both: the handlers of a
\* call are invoked at most once altogether.
C1_AtMostOnce ==
    \A c \in Calls : Len(calls[c].fired) <= 1

\* Two sends of one message_id, the first acknowledged and the second timed
\* out: both handlers ran for the id, each for a send of its own
C1_Witness ==
    \E c1, c2 \in Calls :
        /\ c1 < c2
        /\ calls[c1].id = calls[c2].id
        /\ Fired(c1, "on_ack")
        /\ Fired(c2, "on_timeout")

\* C2: for any send_reliable call with a non-ACK packet, each per-destination
\* call of a broadcast included, exactly one of on_ack / on_timeout is
\* eventually invoked exactly once.  Stated so that a finite run refutes it: a
\* call never has more than one invocation, and a call with none yet still
\* owns the pending entry that an ACK or the sweep will find.
C2_ExactlyOneOutcome ==
    \A c \in Calls :
        /\ Len(calls[c].fired) <= 1
        /\ calls[c].fired = <<>> => Owns(c)

\* C3: when no ACK arrives, on_timeout fires with retries_performed equal to
\* max_retries, after exactly max_retries retransmissions (max_retries + 1
\* transmissions of the send in total).
C3_TimeoutAfterMaxRetries ==
    \A c \in Calls :
        \A i \in 1..Len(calls[c].fired) :
            calls[c].fired[i].h = "on_timeout" =>
                /\ calls[c].fired[i].r = MaxRetries
                /\ calls[c].tx = MaxRetries + 1

\* C4: handle_ack for an original id that has no PendingSend leaves the
\* pending set unchanged and invokes no handler; and after handle_ack for an
\* id the id has no PendingSend, so a second handle_ack for it is that no-op
\* and the ack handler runs at most once.
C4_HandleAckIdempotent ==
    /\ [](last.op = "handle_ack" => last.packet.content \notin DOMAIN pending)
    /\ [][(last'.op = "handle_ack" /\ last'.packet.content \notin DOMAIN pending)
             => (pending' = pending /\ calls' = calls /\ last'.sent = <<>>)]_vars

\* An ACK that arrives after its send timed out
C4_Witness ==
    /\ last.op = "handle_ack"
    /\ pending # EmptyDict
    /\ \E c \in Calls : /\ calls[c].id = last.packet.content
                        /\ Fired(c, "on_timeout")
                        /\ ~Fired(c, "on_ack")

\* C10: send_reliable with an ACK packet transmits it once and creates no
\* PendingSend: the pending set and the handlers' record are unchanged, and
\* no pending entry ever holds an ACK, so none is retransmitted or has a
\* handler invoked.
C10_AckNotTracked ==
    /\ [](\A m \in DOMAIN pending : pending[m].packet.message_type # ACK)
    /\ [][(last'.op = "send_reliable" /\ last'.packet.message_type = ACK)
             => /\ pending' = pending
                /\ calls' = calls
                /\ last'.sent = <<Datagram(last'.packet, last'.addr)>>]_vars

\* An ACK sent through send_reliable while other sends are outstanding
C10_Witness ==
    /\ last.op = "send_reliable"
    /\ last.packet.message_type = ACK
    /\ pending # EmptyDict
    /\ last.sent = <<Datagram(last.packet, last.addr)>>

----------------------------------------------------------------------------
(* Properties of the endpoints, checked under Spec *)

\* The registered clients other than username, in the order of the registry
Others(cl, username) == SelectSeq(cl, LAMBDA e : e.name # username)

\* The datagrams a handler sent after its first (the ACK)
Relayed == IF last.sent = <<>> THEN <<>> ELSE Tail(last.sent)

C6_TrackedPerDestination ==
    (last.op = MESSAGE /\ Len(Relayed) >= 2) =>
        \A i \in 1..Len(Relayed) :
            \E c \in Calls :
                /\ Owns(c)
                /\ calls[c].addr = Relayed[i].addr
                /\ pending[calls[c].id].packet = Relayed[i].packet
                /\ pending[calls[c].id].addr = Relayed[i].addr

\* C7: the registry never holds two entries for one identity, and a JOIN for
\* an identity that is already registered changes no entry of the registry
\* and sends no user list and no notification.
C7_RegistryUnique ==
    /\ [](\A i, j \in 1..Len(clients) : clients[i].name = clients[j].name => i = j)
    /\ [][(last'.op = JOIN /\ last'.packet.sender \in ClientNames(clients))
             => /\ clients' = clients
                /\ pending' = pending
                /\ calls' = calls
                /\ \A i \in 1..Len(last'.sent) :
                       last'.sent[i].packet.message_type \notin {USER_LIST, MESSAGE}]_vars

\* A JOIN for a registered identity from another address than the registered
C7_Witness ==
    /\ last.op = JOIN
    /\ last.sent = <<>>
    /\ last.packet.sender \in ClientNames(clients)
    /\ ClientAddr(clients, last.packet.sender) # last.addr

\* C8: for every inbound packet of a kind other than ACK (JOIN, a duplicate
\* JOIN included, LEAVE, MESSAGE, PRIVATE_MESSAGE, HEARTBEAT) the server sends
\* an untracked ACK carrying the packet's message_id to its source address.
C8_AckForEveryPacket ==
    last.op \in {JOIN, LEAVE, MESSAGE, PRIVATE_MESSAGE, HEARTBEAT} =>
        /\ Len(last.sent) >= 1
        /\ last.sent[1] = Datagram(create_ack("server", last.packet.message_id), last.addr)
        /\ \A m \in DOMAIN pending : pending[m].packet.message_type # ACK

\* The step just taken handled an inbound ACK
AckHandled ==
    \/ last.op = ACK
    \/ last.op = "client_recv" /\ last.packet.message_type = ACK

\* C9: an inbound ACK, on the server and on the client, is only routed to
\* handle_ack: the endpoint sends nothing in reply, and its pending set and
\* handlers change as handle_ack changes them.
C9_NoReplyToAck ==
    /\ [](AckHandled => last.sent = <<>>)
    /\ [][(last'.op = ACK \/ (last'.op = "client_recv" /\ last'.packet.message_type = ACK))
             => LET st == handle_ack(RUState(pending, calls, <<>>), last'.packet)
                IN  /\ pending' = st.pending
                    /\ calls' = st.calls
                    /\ clients' = clients]_vars

\* The client received the ACK of its JOIN
C9_Witness ==
    /\ AckHandled
    /\ role = "client"
    /\ client.connected
    /\ pending = EmptyDict

----------------------------------------------------------------------------
(* Properties of the server's handlers, checked under Spec *)

\* The datagrams of one packet to every entry of a registry, in its order
ToAll(cl, packet) == [i \in 1..Len(cl) |-> Datagram(packet, cl[i].addr)]

\* d is an ACK from the server for the packet handled last, to its source
IsAckOfLast(d) ==
    /\ d.addr = last.addr
    /\ d.packet.message_type = ACK
    /\ d.packet.sender = "server"
    /\ d.packet.content = last.packet.message_id

\* The step just taken handled a JOIN and registered its sender
Joined == last.op = JOIN /\ last.sent # <<>>

\* C11: a JOIN from an identity that is not registered, arriving from address
\* a, appends the identity with address a to the registry and sends an ACK
\* carrying the JOIN's message_id to a; and a client that receives the ACK
\* carrying its JOIN's message_id has its JOIN completed by on_ack and is
\* connected.
C11_JoinRegisters ==
    /\ []((/\ last.op = "client_recv"
           /\ last.packet.message_type = ACK
           /\ Len(calls) >= 1
           /\ last.packet.content = calls[1].id)
          => (/\ client.connected
              /\ Len(calls[1].fired) = 1
              /\ calls[1].fired[1].h = "on_ack"
              /\ calls[1].fired[1].r = 0
              /\ calls[1].id \notin DOMAIN pending))
    /\ [][(last'.op = JOIN /\ last'.packet.sender \notin ClientNames(clients))
             => /\ clients' = Append(clients, [name |-> last'.packet.sender,
                                               addr |-> last'.addr])
                /\ client_last_seen'[last'.packet.sender] = "fresh"
                /\ Len(last'.sent) >= 1
                /\ last'.sent[1].addr = last'.addr
                /\ last'.sent[1].packet.message_type = ACK
                /\ last'.sent[1].packet.content = last'.packet.message_id]_vars

\* A first JOIN, registered at its source address and acknowledged
C11_Witness ==
    /\ Joined
    /\ IsAckOfLast(last.sent[1])
    /\ clients = <<[name |-> last.packet.sender, addr |-> last.addr]>>

C13_LeaveBroadcasts ==
    /\ [](last.op = LEAVE =>
            LET X == last.packet.sender
                n == Len(clients)
            IN  /\ X \notin ClientNames(clients)
                /\ Len(last.sent) = 1 + 2 * n
                /\ IsAckOfLast(last.sent[1])
                /\ n >= 1 =>
                     LET ul == last.sent[2].packet
                         note == last.sent[Len(last.sent)].packet
                     IN  /\ ul.message_type = USER_LIST
                         /\ ul.content = clients
                         /\ SubSeq(last.sent, 2, 1 + n) = ToAll(clients, ul)
                         /\ note.message_type = MESSAGE
                         /\ note.content = <<X, "left the chat">>
                         /\ SubSeq(last.sent, 2 + n, 1 + 2 * n) = ToAll(clients, note))
    /\ [][last'.op = LEAVE
             => clients' = SelectSeq(clients, LAMBDA e : e.name # last'.packet.sender)]_vars

\* A LEAVE from an identity that had joined (a user list naming it is still
\* outstanding), with a peer remaining
C13_Witness ==
    /\ last.op = LEAVE
    /\ Len(clients) >= 1
    /\ \E m \in DOMAIN pending :
           /\ pending[m].packet.message_type = USER_LIST
           /\ last.packet.sender \in ClientNames(pending[m].packet.content)

C15_Eviction ==
    /\ [](last.op = "scan" =>
            \A u \in ClientNames(clients) :
                client_last_seen[u] = "stale" => u \in hb.inactive_users)
    /\ [](last.op = "evict" =>
            LET X == last.packet.sender
                n == Len(clients)
            IN  /\ X \notin ClientNames(clients)
                /\ Len(last.sent) = 2 * n
                /\ n >= 1 =>
                     LET ul == last.sent[1].packet
                         note == last.sent[Len(last.sent)].packet
                     IN  /\ ul.message_type = USER_LIST
                         /\ ul.content = clients
                         /\ SubSeq(last.sent, 1, n) = ToAll(clients, ul)
                         /\ note.message_type = MESSAGE
                         /\ note.content = <<X, "disconnected (timeout)">>
                         /\ SubSeq(last.sent, 1 + n, 2 * n) = ToAll(clients, note))

\* The removal of a registered peer that went silent, with a peer remaining
C15_Witness ==
    /\ last.op = "evict"
    /\ Len(clients) >= 1
    /\ last.packet.sender \notin DOMAIN client_last_seen
    /\ \E m \in DOMAIN pending :
           /\ pending[m].packet.message_type = USER_LIST
           /\ last.packet.sender \in ClientNames(pending[m].packet.content)

\* The kinds of packet the server's receive loop handles
Handled == {JOIN, LEAVE, MESSAGE, PRIVATE_MESSAGE, HEARTBEAT, ACK, ERROR}

\* C16: the liveness monitor removes a registered peer only if, at the moment
\* of the removal, its last-seen stamp is still older than the timeout.
C16_EvictOnlyIfStale ==
    [][(last'.op = "evict" /\ last'.packet.sender \in ClientNames(clients))
          => client_last_seen[last'.packet.sender] = "stale"]_vars

C18_RejoinFresh ==
    /\ [](Joined =>
            LET X == last.packet.sender
            IN  /\ clients[Len(clients)] = [name |-> X, addr |-> last.addr]
                /\ Cardinality({i \in 1..Len(clients) : clients[i].name = X}) = 1
                /\ X \in DOMAIN client_last_seen
                /\ client_last_seen[X] = "fresh")
    /\ [][\A u \in ClientNames(clients) :
              u \notin ClientNames(clients') => u \notin DOMAIN client_last_seen']_vars

\* A JOIN that registers an identity which had been registered before from
\* another address (a user list with the old entry is still outstanding)
C18_Witness ==
    /\ Joined
    /\ \E m \in DOMAIN pending :
           /\ pending[m].packet.message_type = USER_LIST
           /\ \E i \in 1..Len(pending[m].packet.content) :
                  /\ pending[m].packet.content[i].name = last.packet.sender
                  /\ pending[m].packet.content[i].addr # last.addr

\* C19: after the server has handled a packet from a registered identity
\* arriving from source address a, the registry maps the identity to a.
C19_AddressRefreshed ==
    (last.op \in Handled /\ last.packet.sender \in ClientNames(clients)) =>
        \E i \in 1..Len(clients) :
            clients[i].name = last.packet.sender /\ clients[i].addr = last.addr

\* C20: handling a packet (other than a JOIN, which registers) whose sender
\* is not registered leaves the registry and the last-seen table unchanged.
C20_TouchAbsentNoOp ==
    [][(/\ last'.op \in Handled \ {JOIN}
        /\ last'.packet.sender \notin ClientNames(clients))
          => (clients' = clients /\ client_last_seen' = client_last_seen)]_vars

----------------------------------------------------------------------------
(* Properties of the reliable transport under failures, checked under      *)
(* RUSpec and FaultSpec                                                    *)

\* C21: when handle_ack finds the entry, on_ack is invoked with the time
\* elapsed since the first transmission of the packet, not since the latest
\* retransmission: the elapsed time it is given exceeds ack_timeout exactly
\* when the time since the first transmission does.
C21_ElapsedSinceFirst ==
    \A c \in Calls : \A i \in 1..Len(calls[c].fired) :
        calls[c].fired[i].h = "on_ack" =>
            calls[c].fired[i].d = calls[c].fired[i].e

\* C22: a failure of sock.sendto is not propagated and removes nothing: a
\* send_reliable whose transmission fails hands no datagram to the network
\* and leaves the entry registered with retry count 0 (and every other entry
\* in place); a retransmission that fails still counts as a retry of the
\* entry; and a retransmission made when the socket works again carries the
\* entry's packet to the entry's address, as for a lost datagram.
C22_SendFailureKeepsEntry ==
    /\ [][(sock = "error" /\ last'.op = "send_reliable"
               /\ last'.packet.message_type # ACK)
            => /\ last'.sent = <<>>
               /\ DOMAIN pending \subseteq DOMAIN pending'
               /\ last'.packet.message_id \in DOMAIN pending'
               /\ LET entry == pending'[last'.packet.message_id]
                  IN  /\ entry.packet = last'.packet
                      /\ entry.addr = last'.addr
                      /\ entry.retries = 0]_vars
    /\ [][(last'.op = "retry" /\ last'.addr # None)
            => /\ DOMAIN pending' = DOMAIN pending
               /\ LET m == last'.packet.message_id
                  IN  /\ pending'[m].retries = pending[m].retries + 1
                      /\ pending'[m].packet = last'.packet
                      /\ last'.sent = IF sock = "ok"
                                      THEN <<Datagram(last'.packet, pending[m].addr)>>
                                      ELSE <<>>]_vars

\* The transmission of a send_reliable call has just failed, and its entry
\* is registered
C22_Witness ==
    /\ last.op = "send_reliable"
    /\ last.packet.message_type = MESSAGE
    /\ last.sent = <<>>
    /\ last.packet.message_id \in DOMAIN pending
    /\ pending[last.packet.message_id].call = Len(calls)

\* C29: a sweep pass retries exactly the entries that are older than
\* ack_timeout and have retries < max_retries: the entry a retry step changes
\* was such an entry, its count goes up by one, its send time becomes the
\* time of the pass, and its packet goes unchanged to its address; every
\* other entry, in particular one not older than ack_timeout, is left as it
\* was and is not retransmitted.
C29_RetryOnlyExpired ==
    [][last'.op = "retry"
        => /\ DOMAIN pending' = DOMAIN pending
           /\ \A m \in DOMAIN pending :
                 \/ pending'[m] = pending[m]
                 \/ /\ pending[m].sent_time = "expired"
                    /\ pending[m].retries < MaxRetries
                    /\ pending'[m].retries = pending[m].retries + 1
                    /\ pending'[m].sent_time = sweep.current_time
                    /\ pending'[m].packet = pending[m].packet
                    /\ pending'[m].addr = pending[m].addr
                    /\ last'.sent = <<Datagram(pending[m].packet, pending[m].addr)>>]_vars

----------------------------------------------------------------------------
(* Properties of stop(), checked under StopSpec *)

\* C25: once stop() has returned, no handler is invoked any more: neither
\* on_ack by a later handle_ack nor on_timeout.
C25_NoHandlerAfterStop ==
    [][(~running /\ sweep.pc = "idle")
        => \A c \in Calls : calls'[c].fired = calls[c].fired]_vars

----------------------------------------------------------------------------
(* Properties of the codec, checked under CodecSpec *)

\* C23: a datagram that cannot be decoded as a packet makes parse answer
\* its error value, None; no exception leaves parse.
C23_UndecodableYieldsNone ==
    (wire.stage = "parsed" /\ wire.origin = "network"
        /\ wire.parsed.outcome # "packet")
    => wire.parsed.outcome = "none"

\* C24: parse(serialize(p)) is a packet equal to p in all six fields; in
\* particular an absent recipient comes back absent and an empty one empty.
C24_RoundTrip ==
    (wire.stage = "parsed" /\ wire.origin = "packet")
    => /\ wire.parsed.outcome = "packet"
       /\ \A k \in Fields : wire.parsed.packet[k] = wire.packet[k]
       /\ (wire.parsed.packet.recipient = None) <=> (wire.packet.recipient = None)
       /\ (wire.parsed.packet.recipient = "") <=> (wire.packet.recipient = "")

\* A packet whose recipient is the empty string went through the codec
C24_Witness ==
    /\ wire.stage = "parsed"
    /\ wire.origin = "packet"
    /\ wire.packet.recipient = ""
    /\ wire.packet.timestamp = 1
    /\ wire.parsed.packet.recipient = ""

----------------------------------------------------------------------------
(* Properties of send_reliable's steps, checked under SendSpec *)

\* C30: send_reliable registers the entry before the first transmission, so
\* under every interleaving of the caller, the network and the receive
\* thread, an ACK provoked by that transmission finds the entry: while the
\* datagram or its ACK is in flight the entry is pending, and the handle_ack
\* step for the ACK removes it.
C30_RegisteredBeforeTransmit ==
    /\ [](\A d \in net :
            (IF d.packet.message_type = ACK THEN d.packet.content
                                            ELSE d.packet.message_id)
                \in DOMAIN pending)
    /\ [][last'.op = "handle_ack"
            => /\ last'.packet.content \in DOMAIN pending
               /\ last'.packet.content \notin DOMAIN pending']_vars

\* The ACK of the first packet was handled while the caller was between the
\* registration and the transmission of the second, and on_ack was invoked
C30_Witness ==
    /\ last.op = "handle_ack"
    /\ last.packet.content = 1
    /\ th.send.pc = "registered"
    /\ Len(calls) >= 1
    /\ Fired(1, "on_ack")

----------------------------------------------------------------------------
(* Properties of the loops and the locks, checked under LoopSpec *)

Threads == {"recv", "retry", "hbeat"}

\* The thread is about to acquire ReliableUDP's lock
WantsRuLock(t) ==
    \/ t = "recv" /\ th.recv \in {"private_locked", "broadcast_send", "ack"}
    \/ t = "retry" /\ th.retry = "top" /\ running
    \/ t = "hbeat" /\ th.hbeat = "broadcast"

\* The thread is about to acquire the server's lock
WantsLock(t) ==
    \/ t = "recv" /\ th.recv \in {"private", "broadcast"}
    \/ t = "retry" /\ th.retry = "handler_broadcast"
    \/ t = "hbeat" /\ th.hbeat \in {"top", "broadcast"}

\* C26: the registry lock and the pending-send lock are independent: no
\* thread holds both, and no thread that holds one is about to acquire (and
\* so may have to wait for) the other.
C26_LocksIndependent ==
    \A t \in Threads :
        /\ ~(th.lock = t /\ th.ru_lock = t)
        /\ ~(th.lock = t /\ WantsRuLock(t))
        /\ ~(th.ru_lock = t /\ WantsLock(t))

\* C27: every socket receive has a bounded wait: a receive loop blocked in
\* recvfrom gets socket.timeout after the receive timeout, sees running
\* cleared and exits, without another datagram arriving.
C27_ReceiveBounded ==
    th.recv = "recvfrom" => SockTimeout(role) # None

\* C28: no failure inside a loop terminates it: the receive loops and the
\* retry sweep keep running whatever is raised while a packet is handled or
\* by a handler.
C28_LoopsSurvive ==
    /\ th.recv # "dead"
    /\ th.retry # "dead"

\* C38: the server never deadlocks on its two locks: in no reachable state
\* does a thread that holds the pending-set lock wait for the registry lock
\* while another thread that holds the registry lock waits for the
\* pending-set lock.
C38_NoLockCycle ==
    \A t1 \in Threads : \A t2 \in Threads \ {t1} :
        ~(/\ th.ru_lock = t1 /\ WantsLock(t1)
          /\ th.lock = t2 /\ WantsRuLock(t2))

\* The receive thread holds the registry lock and waits for the pending-set
\* lock, which the retry sweep holds while it invokes on_timeout
C38_Witness ==
    /\ role = "server"
    /\ th.lock = "recv"
    /\ th.recv = "private_locked"
    /\ th.ru_lock = "retry"
    /\ th.retry = "timeout"

----------------------------------------------------------------------------
(* Properties of the sweep under interleaving, checked under RUSpec *)

\* C31: whenever on_timeout(r) is invoked, r equals max_retries and the entry
\* timed out has been transmitted max_retries + 1 times since it was
\* registered, also when send_reliable registers the same message_id again
\* between the scan and the removal of a sweep pass: a step that appends an
\* on_timeout invocation to a call's record appends it with r = max_retries,
\* removes an entry that had max_retries retries and was older than
\* ack_timeout, and finds the call with max_retries + 1 transmissions.
C31_TimeoutUnderInterleaving ==
    [][\A c \in Calls :
          (/\ Len(calls'[c].fired) = Len(calls[c].fired) + 1
           /\ calls'[c].fired[Len(calls'[c].fired)].h = "on_timeout")
          => /\ calls'[c].fired[Len(calls'[c].fired)].r = MaxRetries
             /\ calls'[c].tx = MaxRetries + 1
             /\ calls[c].id \in DOMAIN pending
             /\ pending[calls[c].id].retries = MaxRetries
             /\ pending[calls[c].id].sent_time = "expired"]_vars

----------------------------------------------------------------------------
(* Further properties of the server, checked under Spec *)

\* C32: the on_ack handler of a send addressed to destination D is invoked
\* only when an ACK for the message_id sent by D is handled: an ACK for a
\* pending id that arrives from another address than the entry's destination
\* removes no entry and invokes no handler.
C32_AckFromDestination ==
    [][(/\ last'.op = ACK
        /\ last'.packet.content \in DOMAIN pending
        /\ pending[last'.packet.content].addr # last'.addr)
          => (pending' = pending /\ calls' = calls)]_vars

\* C33: once the server has registered identity X from a JOIN, every
\* retransmission of that JOIN that reaches the server (the same packet from
\* the same address) is answered with an ACK carrying its message_id, so that
\* the loss of the first ACK cannot make the client's JOIN time out while the
\* server holds X registered.
C33_JoinRetransmissionAcked ==
    [][(/\ last'.op = JOIN
        /\ \E i \in 1..Len(clients) :
               /\ clients[i].name = last'.packet.sender
               /\ clients[i].addr = last'.addr)
          => \E i \in 1..Len(last'.sent) :
                /\ last'.sent[i].addr = last'.addr
                /\ last'.sent[i].packet.message_type = ACK
                /\ last'.sent[i].packet.content = last'.packet.message_id]_vars

\* C34: the liveness monitor sends its "disconnected (timeout)" notification
\* and its user list for an identity only in the iteration in which it
\* removed that identity from the registry: an iteration for a name that is
\* not registered sends nothing.
C34_AnnounceOnlyRemoved ==
    [][(last'.op = "evict" /\ last'.sent # <<>>)
          => /\ last'.packet.sender \in ClientNames(clients)
             /\ last'.packet.sender \notin ClientNames(clients')]_vars

\* C36: a MESSAGE or PRIVATE_MESSAGE whose sender is not registered is not
\* forwarded to any peer (whatever the server sends goes back to the source
\* address of the packet) and leaves the registry unchanged.
C36_UnregisteredNotForwarded ==
    [][(/\ last'.op \in {MESSAGE, PRIVATE_MESSAGE}
        /\ last'.packet.sender \notin ClientNames(clients))
          => /\ \A i \in 1..Len(last'.sent) : last'.sent[i].addr = last'.addr
             /\ clients' = clients]_vars

\* C39: in every reachable state of the server each registered identity has
\* a last-seen record: the names of the address table are keys of the
\* last-seen table, so the paired deletions of a LEAVE and of an eviction
\* find both keys.
C39_RegisteredHaveLastSeen ==
    ClientNames(clients) \subseteq DOMAIN client_last_seen

\* A LEAVE or an eviction has deleted both records of an identity while
\* another identity stays registered
C39_Witness ==
    /\ last.op \in {LEAVE, "evict"}
    /\ last.packet.sender \notin ClientNames(clients)
    /\ last.packet.sender \notin DOMAIN client_last_seen
    /\ clients # <<>>

(* Property of the heartbeat thread of the client, checked under BeatSpec *)

\* C35: a connected client keeps itself alive: once the JOIN was
\* acknowledged, and while the client is connected and running, its
\* heartbeat loop is running, whichever of the start of the heartbeat thread
\* and the arrival of the JOIN's ACK came first.
C35_HeartbeatWhileConnected ==
    (client.connected /\ th.running) => th.hbeat # "exited"

(* Property of handlers that call back into ReliableUDP, checked under
   NestSpec *)

\* C37: an on_ack or on_timeout handler may call send_reliable or handle_ack
\* on the same instance: the nested call does not block forever on the
\* pending-set lock, that is, no thread waits at with self.lock: for a lock
\* that it holds itself.
C37_NestedCallReturns ==
    /\ ~(th.recv = "nested" /\ th.ru_lock = "recv")
    /\ ~(th.retry = "nested" /\ th.ru_lock = "retry")

====
